---- MODULE Spec2Model ----
(***************************************************************************)
(* Model of the LEVESOL displacement-fee service (src/app.py): the         *)
(* coordinate cache, the two coordinate resolvers with their fallback      *)
(* chains, the distance estimator, the fee formula and the HTTP handlers,  *)
(* run by concurrent request threads.                                      *)
(*                                                                         *)
(* Units.  The code's floats are fixed-point integers: distancia_metros in *)
(* 0.001 m, duracao_segundos in 0.001 s, angles in 1e-12 radian; reported  *)
(* distances are in 0.01 km, reported durations in minutes; money is in    *)
(* 0.00001 currency units ("milli-cents") before rounding and in cents     *)
(* after; coordinates are in 0.0001 degree.  Text is a sequence of         *)
(* one-character strings.                                                  *)
(***************************************************************************)
EXTENDS Integers, Sequences, FiniteSets, TLC

\* ------------------------------------------------------------ bounds
\* Largest one-way distance (km) the fee specification enumerates.
MaxKm == 90
\* Half-width (m) of the window around the franchise that is enumerated metre by metre.
JanelaM == 12

\* Number of requests a behaviour starts while another request is under way.
MaxSobrepostos == 1

\* ------------------------------------------------- business constants
CEP_ORIGEM == <<"1","7","0","1","7","-","3","3","7">>
\* 1.60 per km, in cents per km
TAXA_POR_KM == 160
\* km
FRANQUIA_KM_IDA == 30
FRANQUIA_KM_TOTAL == FRANQUIA_KM_IDA * 2
\* Earth radius, metres
R == 6371000
\* road factor 1.3, in tenths
FATOR_ESTRADA == 13
\* average speed of the fallback's duration estimate, km/h
VELOCIDADE_MEDIA == 80

\* ------------------------------------------------------------- text
Digitos == {"0","1","2","3","4","5","6","7","8","9"}

IsDigit(c) == c \in Digitos

\* str.lower on the model's alphabet
Lower(c) ==
    CASE c = "A" -> "a"
      [] c = "B" -> "b"
      [] c = "R" -> "r"
      [] OTHER -> c

LowerSeq(s) == [i \in 1..Len(s) |-> Lower(s[i])]

RECURSIVE LStrip(_)
LStrip(s) == IF s # <<>> /\ Head(s) = " " THEN LStrip(Tail(s)) ELSE s

RECURSIVE RStrip(_)
RStrip(s) ==
    IF s # <<>> /\ s[Len(s)] = " " THEN RStrip(SubSeq(s, 1, Len(s) - 1)) ELSE s

\* str.strip
Strip(s) == RStrip(LStrip(s))

\* s[:n]
Prefixo(s, n) == SubSeq(s, 1, IF Len(s) < n THEN Len(s) ELSE n)

limpar_cep(cep) == SelectSeq(cep, IsDigit)

formatar_cep(cep) ==
    LET cep_limpo == limpar_cep(cep)
    IN  IF Len(cep_limpo) = 8
        THEN SubSeq(cep_limpo, 1, 5) \o <<"-">> \o SubSeq(cep_limpo, 6, 8)
        ELSE cep

\* key of the postal-code path: the digits of the input
ChaveCep(cep) == limpar_cep(cep)

\* key of the address path: "endereco_" + lower().strip()
ChaveEndereco(endereco) ==
    <<"e","n","d","e","r","e","c","o","_">> \o Strip(LowerSeq(endereco))

\* ------------------------------------------------- rounding (round())
RECURSIVE Pow2Mod2000(_)
Pow2Mod2000(s) == IF s = 0 THEN 1 ELSE (2 * Pow2Mod2000(s - 1)) % 2000

\* e with 2^e <= h/2000 < 2^(e+1), for h >= 1
RECURSIVE ExpoAcima(_, _)
ExpoAcima(h, e) == IF h \div 2 >= 2000 THEN ExpoAcima(h \div 2, e + 1) ELSE e

RECURSIVE ExpoAbaixo(_, _)
ExpoAbaixo(h, e) == IF h < 2000 THEN ExpoAbaixo(h * 2, e - 1) ELSE e

Expoente(h) == IF h >= 2000 THEN ExpoAcima(h, 0) ELSE ExpoAbaixo(h, 0)

\* The binary64 quotient distancia_metros / 1000 against the exact quotient, for a
\* distance of h half metres (h >= 1; such a distance is exact in binary64, and
\* its kilometres are h/2000): -1 below, 0 equal, 1 above. The quotient is the
\* nearest multiple of 2^-(52-e); the remainder of h * 2^(52-e) modulo 2000 says
\* on which side it lies (it is a multiple of 16, so it is never 1000).
LadoBinario(h) ==
    LET rem == ((h % 2000) * Pow2Mod2000(52 - Expoente(h))) % 2000
    IN  IF rem = 0 THEN 0 ELSE IF rem < 1000 THEN -1 ELSE 1

\* The side of distancia_ida_km for a distance d in 0.001 m. Doubling it and
\* taking 60 from the double are exact in binary64, so distancia_ida_km * 2 and
\* km_excedente lie on the same side of their exact values. Only distances of a
\* whole number of half metres can round on a tie; the others need no side.
LadoDaDistancia(d) ==
    IF d > 0 /\ d % 500 = 0 THEN LadoBinario(d \div 500) ELSE 0

\* round(n / den) to the nearest integer when the float is the exact n/den on
\* every tie (the minutes, whose ties are whole halves) or never ties (the
\* fee): half to even
MutRoundTrunca(n, den) == n \div den

RoundNearest(n, den) ==
    LET q == n \div den
        r == n % den
    IN  IF 2 * r < den THEN q
        ELSE IF 2 * r > den THEN q + 1
        ELSE IF q % 2 = 0 THEN q ELSE q + 1

\* round(x * num / den) without leaving 32 bits (num * den < 2^31)
Proporcao(x, num, den) == (x \div den) * num + RoundNearest((x % den) * num, den)

\* round(x, 2) in hundredths of km for a float x whose exact value is n in
\* 0.001 m and which lies on the given side of it: the float is rounded on its
\* binary value, so on a tie of the exact value the side decides, and half to
\* even only when the float is the tie itself.
Round2(n, lado) ==
    IF n % 10000 = 5000 /\ lado # 0
    THEN n \div 10000 + (IF lado > 0 THEN 1 ELSE 0)
    ELSE RoundNearest(n, 10000)

\* round(distancia_metros / 1000, 2) in hundredths of km, d in 0.001 m
Round2Km(d) == Round2(d, LadoDaDistancia(d))

\* ----------------------------------------------------- fee formula
\* The numeric part of calcular_taxa_deslocamento: from the estimator's result to
\* the 'distancia' and 'calculo' sections of the response.
MutTaxaSemLimiar(rd) ==
    LET d == rd.distancia_metros
        excede == d > FRANQUIA_KM_IDA * 1000000
        km_excedente == d * 2
    IN  [ km_excedente_mm |-> km_excedente,
          valor_taxa_mc |-> Proporcao(km_excedente, TAXA_POR_KM, 1000),
          ida_km |-> Round2Km(d),
          ida_volta_km |-> Round2(d * 2, LadoDaDistancia(d)),
          tempo_estimado_ida_minutos |-> RoundNearest(rd.duracao_segundos, 60000),
          metodo_calculo |-> rd.metodo,
          km_excedente |-> Round2(km_excedente, LadoDaDistancia(d)),
          valor_taxa |-> Proporcao(km_excedente, TAXA_POR_KM, 1000000) ]

MutTaxaIda(rd) ==
    LET d == rd.distancia_metros
        excede == d > FRANQUIA_KM_IDA * 1000000
        km_excedente == IF excede THEN d * 2 - FRANQUIA_KM_IDA * 1000000 ELSE 0
    IN  [ km_excedente_mm |-> km_excedente,
          valor_taxa_mc |-> Proporcao(km_excedente, TAXA_POR_KM, 1000),
          ida_km |-> Round2Km(d),
          ida_volta_km |-> Round2(d * 2, LadoDaDistancia(d)),
          tempo_estimado_ida_minutos |-> RoundNearest(rd.duracao_segundos, 60000),
          metodo_calculo |-> rd.metodo,
          km_excedente |-> Round2(km_excedente, LadoDaDistancia(d)),
          valor_taxa |-> Proporcao(km_excedente, TAXA_POR_KM, 1000000) ]

MutTaxaSoIda(rd) ==
    LET d == rd.distancia_metros
        excede == d > FRANQUIA_KM_IDA * 1000000
        km_excedente == IF excede THEN d - FRANQUIA_KM_TOTAL * 1000000 ELSE 0
    IN  [ km_excedente_mm |-> km_excedente,
          valor_taxa_mc |-> Proporcao(km_excedente, TAXA_POR_KM, 1000),
          ida_km |-> Round2Km(d),
          ida_volta_km |-> Round2(d * 2, LadoDaDistancia(d)),
          tempo_estimado_ida_minutos |-> RoundNearest(rd.duracao_segundos, 60000),
          metodo_calculo |-> rd.metodo,
          km_excedente |-> Round2(km_excedente, LadoDaDistancia(d)),
          valor_taxa |-> Proporcao(km_excedente, TAXA_POR_KM, 1000000) ]

\* distancia_ida_km > FRANQUIA_KM_IDA, km_excedente and valor_taxa before and
\* after round(, 2): km_excedente_mm in 0.001 m; valor_taxa_mc in milli-cents
\* (km_excedente * TAXA_POR_KM, exact for a distance in whole metres).
TaxaDeslocamento(rd) ==
    LET d == rd.distancia_metros
        excede == d > FRANQUIA_KM_IDA * 1000000
        km_excedente == IF excede THEN d * 2 - FRANQUIA_KM_TOTAL * 1000000 ELSE 0
    IN  [ km_excedente_mm |-> km_excedente,
          valor_taxa_mc |-> Proporcao(km_excedente, TAXA_POR_KM, 1000),
          ida_km |-> Round2Km(d),
          ida_volta_km |-> Round2(d * 2, LadoDaDistancia(d)),
          tempo_estimado_ida_minutos |-> RoundNearest(rd.duracao_segundos, 60000),
          metodo_calculo |-> rd.metodo,
          km_excedente |-> Round2(km_excedente, LadoDaDistancia(d)),
          valor_taxa |-> Proporcao(km_excedente, TAXA_POR_KM, 1000000) ]

\* The same section of calcular_taxa_por_endereco (the code repeats it).
TaxaPorEndereco(rd) ==
    LET d == rd.distancia_metros
        excede == d > FRANQUIA_KM_IDA * 1000000
        km_excedente == IF excede THEN d * 2 - FRANQUIA_KM_TOTAL * 1000000 ELSE 0
    IN  [ km_excedente_mm |-> km_excedente,
          valor_taxa_mc |-> Proporcao(km_excedente, TAXA_POR_KM, 1000),
          ida_km |-> Round2Km(d),
          ida_volta_km |-> Round2(d * 2, LadoDaDistancia(d)),
          tempo_estimado_ida_minutos |-> RoundNearest(rd.duracao_segundos, 60000),
          metodo_calculo |-> rd.metodo,
          km_excedente |-> Round2(km_excedente, LadoDaDistancia(d)),
          valor_taxa |-> Proporcao(km_excedente, TAXA_POR_KM, 1000000) ]

\* ----------------------------------------------- coordinates, estimator
\* A resolved Coordinate: lat/lon in 0.0001 degree and the form of its
\* 'endereco' text; an address-path result (endereco = "display_name") also
\* carries the keys cidade, uf and cep.
Coordenada(lat, lon, endereco) == [lat |-> lat, lon |-> lon, endereco |-> endereco]

Nenhuma == Coordenada(0, 0, "-")

\* coordenadas_cidades, by prefix
coordenadas_cidades ==
    ( <<"1","7">> :> <<-223155, -490708>> ) @@
    ( <<"1","7","0","1","7">> :> <<-223155, -490708>> ) @@
    ( <<"1","7","0","1","5">> :> <<-223155, -490708>> ) @@
    ( <<"1","7","1","2","0">> :> <<-222189, -490478>> ) @@
    ( <<"1","7","5","0","0">> :> <<-224249, -499461>> ) @@
    ( <<"1","7","6","0","0">> :> <<-222208, -501761>> ) @@
    ( <<"1","7","8","0","0">> :> <<-216833, -511333>> ) @@
    ( <<"1","8","6","0","0">> :> <<-228858, -484452>> ) @@
    ( <<"0","1","3","1","0">> :> <<-235489, -466388>> ) @@
    ( <<"0","1","0","0","0">> :> <<-235505, -466333>> ) @@
    ( <<"8","0","0","0","0">> :> <<-254284, -492733>> ) @@
    ( <<"3","0","0","0","0">> :> <<-199167, -439345>> )

\* The static-table step of obter_coordenadas_viacep: the 5-digit prefix, then
\* the 2-digit prefix; <<>> when neither is a key (the code raises).
MutTabela2Primeiro(cep_limpo) ==
    IF Prefixo(cep_limpo, 2) \in DOMAIN coordenadas_cidades
    THEN <<coordenadas_cidades[Prefixo(cep_limpo, 2)]>>
    ELSE IF Prefixo(cep_limpo, 5) \in DOMAIN coordenadas_cidades
    THEN <<coordenadas_cidades[Prefixo(cep_limpo, 5)]>>
    ELSE <<>>

TabelaEstatica(cep_limpo) ==
    IF Prefixo(cep_limpo, 5) \in DOMAIN coordenadas_cidades
    THEN <<coordenadas_cidades[Prefixo(cep_limpo, 5)]>>
    ELSE IF Prefixo(cep_limpo, 2) \in DOMAIN coordenadas_cidades
    THEN <<coordenadas_cidades[Prefixo(cep_limpo, 2)]>>
    ELSE <<>>

\* The point the geocoder answers with when it finds the query (Bauru area).
PontosGeo == { <<-223250, -490600>> }

\* c = 2 * atan2(sqrt(a), sqrt(1 - a)) of calcular_distancia_haversine, tabulated
\* for the model's points <<lat1, lon1, lat2, lon2>> in 1e-12 radian, as the
\* three base-10000 digits <<c1, c2, c3>>: c = c1 * 1e-4 + c2 * 1e-8 + c3 * 1e-12.
AnguloCentral ==
    <<-254284, -492733, -254284, -492733>> :> <<0, 0, 0>> @@
    <<-254284, -492733, -235505, -466333>> :> <<532, 1822, 6814>> @@
    <<-254284, -492733, -235489, -466388>> :> <<531, 6686, 8509>> @@
    <<-254284, -492733, -228858, -484452>> :> <<462, 9422, 8967>> @@
    <<-254284, -492733, -224249, -499461>> :> <<535, 815, 7529>> @@
    <<-254284, -492733, -223250, -490600>> :> <<542, 7137, 5901>> @@
    <<-254284, -492733, -223155, -490708>> :> <<544, 2636, 863>> @@
    <<-254284, -492733, -222208, -501761>> :> <<578, 827, 9071>> @@
    <<-254284, -492733, -222189, -490478>> :> <<561, 3187, 9316>> @@
    <<-254284, -492733, -222139, -499458>> :> <<571, 2144, 4765>> @@
    <<-254284, -492733, -216833, -511333>> :> <<718, 1591, 9080>> @@
    <<-254284, -492733, -199167, -439345>> :> <<1289, 8380, 9509>> @@
    <<-235505, -466333, -254284, -492733>> :> <<532, 1822, 6814>> @@
    <<-235505, -466333, -235505, -466333>> :> <<0, 0, 0>> @@
    <<-235505, -466333, -235489, -466388>> :> <<0, 9232, 2835>> @@
    <<-235505, -466333, -228858, -484452>> :> <<312, 9197, 4546>> @@
    <<-235505, -466333, -224249, -499461>> :> <<567, 3514, 7751>> @@
    <<-235505, -466333, -223250, -490600>> :> <<444, 8315, 1304>> @@
    <<-235505, -466333, -223155, -490708>> :> <<447, 1630, 5200>> @@
    <<-235505, -466333, -222208, -501761>> :> <<615, 901, 3086>> @@
    <<-235505, -466333, -222189, -490478>> :> <<452, 4712, 4938>> @@
    <<-235505, -466333, -222139, -499458>> :> <<581, 4620, 6104>> @@
    <<-235505, -466333, -216833, -511333>> :> <<794, 8050, 5537>> @@
    <<-235505, -466333, -199167, -439345>> :> <<770, 4411, 3304>> @@
    <<-235489, -466388, -254284, -492733>> :> <<531, 6686, 8509>> @@
    <<-235489, -466388, -235505, -466333>> :> <<0, 9232, 2835>> @@
    <<-235489, -466388, -235489, -466388>> :> <<0, 0, 0>> @@
    <<-235489, -466388, -228858, -484452>> :> <<311, 9985, 4953>> @@
    <<-235489, -466388, -224249, -499461>> :> <<566, 4288, 1277>> @@
    <<-235489, -466388, -223250, -490600>> :> <<443, 9242, 4057>> @@
    <<-235489, -466388, -223155, -490708>> :> <<446, 2560, 835>> @@
    <<-235489, -466388, -222208, -501761>> :> <<614, 1690, 492>> @@
    <<-235489, -466388, -222189, -490478>> :> <<451, 5711, 506>> @@
    <<-235489, -466388, -222139, -499458>> :> <<580, 5429, 3062>> @@
    <<-235489, -466388, -216833, -511333>> :> <<793, 8864, 3099>> @@
    <<-235489, -466388, -199167, -439345>> :> <<770, 7193, 4819>> @@
    <<-228858, -484452, -254284, -492733>> :> <<462, 9422, 8967>> @@
    <<-228858, -484452, -235505, -466333>> :> <<312, 9197, 4546>> @@
    <<-228858, -484452, -235489, -466388>> :> <<311, 9985, 4953>> @@
    <<-228858, -484452, -228858, -484452>> :> <<0, 0, 0>> @@
    <<-228858, -484452, -224249, -499461>> :> <<254, 7742, 2848>> @@
    <<-228858, -484452, -223250, -490600>> :> <<139, 2576, 9761>> @@
    <<-228858, -484452, -223155, -490708>> :> <<141, 6633, 5326>> @@
    <<-228858, -484452, -222208, -501761>> :> <<302, 1708, 2923>> @@
    <<-228858, -484452, -222189, -490478>> :> <<151, 5990, 1573>> @@
    <<-228858, -484452, -222139, -499458>> :> <<268, 8059, 4016>> @@
    <<-228858, -484452, -216833, -511333>> :> <<482, 1760, 735>> @@
    <<-228858, -484452, -199167, -439345>> :> <<897, 5450, 6460>> @@
    <<-224249, -499461, -254284, -492733>> :> <<535, 815, 7529>> @@
    <<-224249, -499461, -235505, -466333>> :> <<567, 3514, 7751>> @@
    <<-224249, -499461, -235489, -466388>> :> <<566, 4288, 1277>> @@
    <<-224249, -499461, -228858, -484452>> :> <<254, 7742, 2848>> @@
    <<-224249, -499461, -224249, -499461>> :> <<0, 0, 0>> @@
    <<-224249, -499461, -223250, -490600>> :> <<144, 688, 8655>> @@
    <<-224249, -499461, -223155, -490708>> :> <<142, 5561, 9592>> @@
    <<-224249, -499461, -222208, -501761>> :> <<51, 4576, 2223>> @@
    <<-224249, -499461, -222189, -490478>> :> <<149, 4240, 1817>> @@
    <<-224249, -499461, -222139, -499458>> :> <<36, 8264, 7907>> @@
    <<-224249, -499461, -216833, -511333>> :> <<231, 5881, 7821>> @@
    <<-224249, -499461, -199167, -439345>> :> <<1071, 7195, 1435>> @@
    <<-223250, -490600, -254284, -492733>> :> <<542, 7137, 5901>> @@
    <<-223250, -490600, -235505, -466333>> :> <<444, 8315, 1304>> @@
    <<-223250, -490600, -235489, -466388>> :> <<443, 9242, 4057>> @@
    <<-223250, -490600, -228858, -484452>> :> <<139, 2576, 9761>> @@
    <<-223250, -490600, -224249, -499461>> :> <<144, 688, 8655>> @@
    <<-223250, -490600, -223250, -490600>> :> <<0, 0, 0>> @@
    <<-223250, -490600, -223155, -490708>> :> <<2, 4061, 9071>> @@
    <<-223250, -490600, -222208, -501761>> :> <<181, 1769, 223>> @@
    <<-223250, -490600, -222189, -490478>> :> <<18, 6224, 8324>> @@
    <<-223250, -490600, -222139, -499458>> :> <<144, 3776, 6500>> @@
    <<-223250, -490600, -216833, -511333>> :> <<353, 6952, 7530>> @@
    <<-223250, -490600, -199167, -439345>> :> <<934, 2444, 7421>> @@
    <<-223155, -490708, -254284, -492733>> :> <<544, 2636, 863>> @@
    <<-223155, -490708, -235505, -466333>> :> <<447, 1630, 5200>> @@
    <<-223155, -490708, -235489, -466388>> :> <<446, 2560, 835>> @@
    <<-223155, -490708, -228858, -484452>> :> <<141, 6633, 5326>> @@
    <<-223155, -490708, -224249, -499461>> :> <<142, 5561, 9592>> @@
    <<-223155, -490708, -223250, -490600>> :> <<2, 4061, 9071>> @@
    <<-223155, -490708, -223155, -490708>> :> <<0, 0, 0>> @@
    <<-223155, -490708, -222208, -501761>> :> <<179, 2870, 7873>> @@
    <<-223155, -490708, -222189, -490478>> :> <<17, 2643, 14>> @@
    <<-223155, -490708, -222139, -499458>> :> <<142, 4381, 6302>> @@
    <<-223155, -490708, -216833, -511333>> :> <<351, 5247, 4746>> @@
    <<-223155, -490708, -199167, -439345>> :> <<935, 957, 8867>> @@
    <<-222208, -501761, -254284, -492733>> :> <<578, 827, 9071>> @@
    <<-222208, -501761, -235505, -466333>> :> <<615, 901, 3086>> @@
    <<-222208, -501761, -235489, -466388>> :> <<614, 1690, 492>> @@
    <<-222208, -501761, -228858, -484452>> :> <<302, 1708, 2923>> @@
    <<-222208, -501761, -224249, -499461>> :> <<51, 4576, 2223>> @@
    <<-222208, -501761, -223250, -490600>> :> <<181, 1769, 223>> @@
    <<-222208, -501761, -223155, -490708>> :> <<179, 2870, 7873>> @@
    <<-222208, -501761, -222208, -501761>> :> <<0, 0, 0>> @@
    <<-222208, -501761, -222189, -490478>> :> <<182, 3016, 1881>> @@
    <<-222208, -501761, -222139, -499458>> :> <<37, 2301, 8392>> @@
    <<-222208, -501761, -216833, -511333>> :> <<181, 1349, 2598>> @@
    <<-222208, -501761, -199167, -439345>> :> <<1093, 409, 3838>> @@
    <<-222189, -490478, -254284, -492733>> :> <<561, 3187, 9316>> @@
    <<-222189, -490478, -235505, -466333>> :> <<452, 4712, 4938>> @@
    <<-222189, -490478, -235489, -466388>> :> <<451, 5711, 506>> @@
    <<-222189, -490478, -228858, -484452>> :> <<151, 5990, 1573>> @@
    <<-222189, -490478, -224249, -499461>> :> <<149, 4240, 1817>> @@
    <<-222189, -490478, -223250, -490600>> :> <<18, 6224, 8324>> @@
    <<-222189, -490478, -223155, -490708>> :> <<17, 2643, 14>> @@
    <<-222189, -490478, -222208, -501761>> :> <<182, 3016, 1881>> @@
    <<-222189, -490478, -222189, -490478>> :> <<0, 0, 0>> @@
    <<-222189, -490478, -222139, -499458>> :> <<145, 976, 7696>> @@
    <<-222189, -490478, -216833, -511333>> :> <<350, 2992, 1172>> @@
    <<-222189, -490478, -199167, -439345>> :> <<924, 5469, 4403>> @@
    <<-222139, -499458, -254284, -492733>> :> <<571, 2144, 4765>> @@
    <<-222139, -499458, -235505, -466333>> :> <<581, 4620, 6104>> @@
    <<-222139, -499458, -235489, -466388>> :> <<580, 5429, 3062>> @@
    <<-222139, -499458, -228858, -484452>> :> <<268, 8059, 4016>> @@
    <<-222139, -499458, -224249, -499461>> :> <<36, 8264, 7907>> @@
    <<-222139, -499458, -223250, -490600>> :> <<144, 3776, 6500>> @@
    <<-222139, -499458, -223155, -490708>> :> <<142, 4381, 6302>> @@
    <<-222139, -499458, -222208, -501761>> :> <<37, 2301, 8392>> @@
    <<-222139, -499458, -222189, -490478>> :> <<145, 976, 7696>> @@
    <<-222139, -499458, -222139, -499458>> :> <<0, 0, 0>> @@
    <<-222139, -499458, -216833, -511333>> :> <<213, 3777, 7881>> @@
    <<-222139, -499458, -199167, -439345>> :> <<1057, 8281, 936>> @@
    <<-216833, -511333, -254284, -492733>> :> <<718, 1591, 9080>> @@
    <<-216833, -511333, -235505, -466333>> :> <<794, 8050, 5537>> @@
    <<-216833, -511333, -235489, -466388>> :> <<793, 8864, 3099>> @@
    <<-216833, -511333, -228858, -484452>> :> <<482, 1760, 735>> @@
    <<-216833, -511333, -224249, -499461>> :> <<231, 5881, 7821>> @@
    <<-216833, -511333, -223250, -490600>> :> <<353, 6952, 7530>> @@
    <<-216833, -511333, -223155, -490708>> :> <<351, 5247, 4746>> @@
    <<-216833, -511333, -222208, -501761>> :> <<181, 1349, 2598>> @@
    <<-216833, -511333, -222189, -490478>> :> <<350, 2992, 1172>> @@
    <<-216833, -511333, -222139, -499458>> :> <<213, 3777, 7881>> @@
    <<-216833, -511333, -216833, -511333>> :> <<0, 0, 0>> @@
    <<-216833, -511333, -199167, -439345>> :> <<1214, 1777, 4202>> @@
    <<-199167, -439345, -254284, -492733>> :> <<1289, 8380, 9509>> @@
    <<-199167, -439345, -235505, -466333>> :> <<770, 4411, 3304>> @@
    <<-199167, -439345, -235489, -466388>> :> <<770, 7193, 4819>> @@
    <<-199167, -439345, -228858, -484452>> :> <<897, 5450, 6460>> @@
    <<-199167, -439345, -224249, -499461>> :> <<1071, 7195, 1435>> @@
    <<-199167, -439345, -223250, -490600>> :> <<934, 2444, 7421>> @@
    <<-199167, -439345, -223155, -490708>> :> <<935, 957, 8867>> @@
    <<-199167, -439345, -222208, -501761>> :> <<1093, 409, 3838>> @@
    <<-199167, -439345, -222189, -490478>> :> <<924, 5469, 4403>> @@
    <<-199167, -439345, -222139, -499458>> :> <<1057, 8281, 936>> @@
    <<-199167, -439345, -216833, -511333>> :> <<1214, 1777, 4202>> @@
    <<-199167, -439345, -199167, -439345>> :> <<0, 0, 0>>

\* distancia_linha_reta * 1.3 = R * c * FATOR_ESTRADA / 10 as <<whole 0.001 m,
\* remainder in 1e-10 m>>: the product is taken digit by digit of c so that it
\* stays in 32 bits (alto in 0.001 m, medio in 1e-6 m, baixo and resto in 1e-10 m).
DistanciaEstimada(c) ==
    LET k == (R \div 1000) * FATOR_ESTRADA
        alto == c[1] * k * 10
        medio == c[2] * k
        baixo == c[3] * k
        resto == (medio % 1000) * 10000 + baixo
    IN  <<alto + medio \div 1000 + resto \div 10000000, resto % 10000000>>

\* (distancia_estimada / 1000) * 3600 / 80 in 0.001 s to the nearest, from the
\* distance e = <<whole 0.001 m, remainder in 1e-10 m>> before it is rounded
\* (num in 1e-7 of 0.001 s).
TempoEstimado(e) ==
    LET s_por_km == 3600 \div VELOCIDADE_MEDIA
        num == (e[1] % 1000) * 10000 * s_por_km + (e[2] \div 1000) * s_por_km
    IN  (e[1] \div 1000) * s_por_km + (num + 5000000) \div 10000000

\* The floats are kept to the nearest 0.001 m and 0.001 s; only the reported
\* figures are rounded further (in the fee formula).
calcular_distancia_haversine(coord_origem, coord_destino) ==
    LET c == AnguloCentral[<<coord_origem.lat, coord_origem.lon,
                             coord_destino.lat, coord_destino.lon>>]
        e == DistanciaEstimada(c)
        distancia_estimada == e[1] + (IF e[2] >= 5000000 THEN 1 ELSE 0)
        tempo_segundos == TempoEstimado(e)
    IN  [ distancia_metros |-> distancia_estimada,
          duracao_segundos |-> tempo_segundos,
          metodo |-> "haversine_ajustado" ]

\* Answers of the routing service. excecao: requests.get raised (network error,
\* timeout); json: the body parses and has 'code' and 'routes'; a route is a
\* function from the keys it carries, with distance in metres and duration in
\* seconds.
RespostaOSRM(tipo, excecao, status_code, json, code, routes) ==
    [ tipo |-> tipo, excecao |-> excecao, status_code |-> status_code,
      json |-> json, code |-> code, routes |-> routes ]

SemRespostaOSRM == RespostaOSRM("-", FALSE, 0, FALSE, "-", <<>>)

RotasOSRM ==
    { ("distance" :> 2000) @@ ("duration" :> 180),
      ("distance" :> 50000) @@ ("duration" :> 2430) }

RespostasOSRM ==
    {RespostaOSRM("ok", FALSE, 200, TRUE, "Ok", <<r>>) : r \in RotasOSRM}
    \cup { RespostaOSRM("http", FALSE, 500, FALSE, "-", <<>>),
           RespostaOSRM("codigo", FALSE, 200, TRUE, "NoRoute", <<>>),
           RespostaOSRM("sem_rotas", FALSE, 200, TRUE, "Ok", <<>>),
           RespostaOSRM("rota_incompleta", FALSE, 200, TRUE, "Ok", <<("duration" :> 180)>>),
           RespostaOSRM("malformado", FALSE, 200, FALSE, "-", <<>>),
           RespostaOSRM("excecao", TRUE, 0, FALSE, "-", <<>>) }

MutOSRMSempre(coord_origem, coord_destino, response) ==
    [calcular_distancia_haversine(coord_origem, coord_destino) EXCEPT !.metodo = "osrm"]

\* Every exception inside the try (the request, response.json(), a missing key)
\* ends in the except branch, which returns the great-circle estimate.
calcular_distancia_osrm(coord_origem, coord_destino, response) ==
    IF response.excecao
    THEN calcular_distancia_haversine(coord_origem, coord_destino)
    ELSE IF response.status_code = 200
    THEN IF ~response.json
         THEN calcular_distancia_haversine(coord_origem, coord_destino)
         ELSE IF response.code = "Ok" /\ response.routes # <<>>
              THEN LET route == response.routes[1]
                   IN  IF {"distance", "duration"} \subseteq DOMAIN route
                       THEN [ distancia_metros |-> route["distance"] * 1000,
                              duracao_segundos |-> route["duration"] * 1000,
                              metodo |-> "osrm" ]
                       ELSE calcular_distancia_haversine(coord_origem, coord_destino)
              ELSE calcular_distancia_haversine(coord_origem, coord_destino)
    ELSE calcular_distancia_haversine(coord_origem, coord_destino)

\* ------------------------------------------------------------ inputs
\* The request threads of the server: two, enough for every race between a pair.
Threads == {1, 2}

\* Postal codes a request may carry: in the table by its 5-digit prefix, the
\* depot's without the dash, in the table by neither prefix, malformed.
CepsEntrada ==
    { <<"1","7","5","0","0","-","0","0","5">>,
      <<"1","7","0","1","7","3","3","7">>,
      <<"9","9","9","9","9","-","9","9","9">>,
      <<"1","2","3">> }

\* Addresses a request may carry: two spellings of one key, and a blank one.
EnderecosEntrada == { <<"R","b">>, <<" ","r","b"," ">>, <<" "," ">> }

\* JSON values of a request body: a string, or a number.
Texto(s) == <<"str", s>>

Numero(n) == <<"num", n>>

EhTexto(v) == v[1] = "str"

Valor(v) == v[2]

\* JSON bodies of POST /calcular, as functions from their keys.
CorpoVazio == <<>>

Corpos ==
    {CorpoVazio}
    \cup {("cep" :> Texto(c)) : c \in CepsEntrada}
    \cup {("endereco" :> Texto(e)) : e \in EnderecosEntrada}
    \cup {("endereco" :> Texto(e)) @@ ("cep" :> Texto(c)) :
            e \in {<<"R","b">>, <<" "," ">>},
            c \in {<<"1","7","5","0","0","-","0","0","5">>, <<"1","2","3">>}}
    \cup {("cep" :> Numero(17500005)), ("endereco" :> Numero(7))}
    \cup {("outro" :> Texto(<<"x">>))}

\* Answers of the postal-code registry: found with a street, found without a
\* street, the 'erro' flag, a status other than 200, a network error.
RespostasViaCEP == {"rua", "cidade", "erro", "http", "excecao"}

\* Answers of the geocoder: a point, an empty list, a status other than 200, a
\* network error.
RespostasNominatim ==
    {[tipo |-> "achou", ponto |-> p] : p \in PontosGeo}
    \cup {[tipo |-> t, ponto |-> <<0, 0>>] : t \in {"vazio", "http", "excecao"}}

\* ------------------------------------------------------------- state
VARIABLES
    CACHE_COORDENADAS,  \* the coordinate cache: key -> Coordinate
    thr,                \* thread -> the request it runs and where it is
    sobrepostos,        \* requests started while another was under way
    resolvidas,         \* keys a resolve has produced a result for since the last clear
    retornadas,         \* keys a resolve has returned a result for since the last clear
    entrada,            \* fee specification: the distances given to the calculators
    saida               \* fee specification: what the calculators produced

vars == <<CACHE_COORDENADAS, thr, sobrepostos, resolvidas, retornadas, entrada, saida>>

sistema == <<CACHE_COORDENADAS, thr, sobrepostos, resolvidas, retornadas>>

\* --------------------------------------------------------- responses
SemTaxa ==
    [ km_excedente_mm |-> 0, valor_taxa_mc |-> 0, ida_km |-> 0, ida_volta_km |-> 0,
      tempo_estimado_ida_minutos |-> 0, metodo_calculo |-> "-",
      km_excedente |-> 0, valor_taxa |-> 0 ]

\* A fee calculator's result, or a handler's own error body.
Resultado(status, codigo, mensagem, taxa) ==
    [status |-> status, codigo |-> codigo, mensagem |-> mensagem, taxa |-> taxa]

\* What the client receives; removidas is the count /limpar-cache reports.
Resposta(http, resultado, removidas) ==
    [http |-> http, corpo |-> resultado, removidas |-> removidas]

SemResposta == Resposta(0, Resultado("-", "-", "-", SemTaxa), -1)

\* except-branch of calcular_taxa_deslocamento
MutExcecaoPropaga(mensagem) == Resultado("excecao", "", mensagem, SemTaxa)

calcular_taxa_deslocamento_except(mensagem) ==
    Resultado("erro", "ERRO_CALCULO", mensagem, SemTaxa)

\* except-branch of calcular_taxa_por_endereco
calcular_taxa_por_endereco_except(mensagem) ==
    Resultado("erro", "ERRO_CALCULO", mensagem, SemTaxa)

\* The handlers' mapping of a fee calculator's result to an HTTP status; a
\* result that is no dict of the calculator (an exception) surfaces as 500.
calcular_status(resultado) ==
    IF resultado.status = "erro" THEN 400
    ELSE IF resultado.status = "sucesso" THEN 200 ELSE 500

teste_status(resultado) ==
    IF resultado.status = "erro" THEN 400
    ELSE IF resultado.status = "sucesso" THEN 200 ELSE 500

teste_endereco_status(resultado) ==
    IF resultado.status = "erro" THEN 400
    ELSE IF resultado.status = "sucesso" THEN 200 ELSE 500

StatusDaRota(rota, resultado) ==
    CASE rota = "calcular" -> calcular_status(resultado)
      [] rota = "teste" -> teste_status(resultado)
      [] OTHER -> teste_endereco_status(resultado)

\* The validation of POST /calcular: what the handler does with the body.
\* acao "responder": answer with the status and the error code; "endereco" /
\* "cep": run the fee calculator on arg. A value that is not a string makes
\* .strip() or limpar_cep raise, which the handler's except answers with 500.
Rejeitar(http, codigo) ==
    [acao |-> "responder", arg |-> <<>>, http |-> http, codigo |-> codigo]

Aceitar(calc, arg) == [acao |-> calc, arg |-> arg, http |-> 0, codigo |-> ""]

MutCepSemValidar(data) ==
    IF DOMAIN data = {} THEN Rejeitar(400, "DADOS_OBRIGATORIOS")
    ELSE IF "endereco" \in DOMAIN data
    THEN IF ~EhTexto(data["endereco"]) THEN Rejeitar(500, "ERRO_SERVIDOR")
         ELSE IF Strip(Valor(data["endereco"])) = <<>>
         THEN Rejeitar(400, "ENDERECO_VAZIO")
         ELSE Aceitar("endereco", Strip(Valor(data["endereco"])))
    ELSE IF "cep" \in DOMAIN data
    THEN IF ~EhTexto(data["cep"]) THEN Rejeitar(500, "ERRO_SERVIDOR")
         ELSE IF FALSE
         THEN Rejeitar(400, "CEP_INVALIDO")
         ELSE Aceitar("cep", Valor(data["cep"]))
    ELSE Rejeitar(400, "PARAMETRO_INVALIDO")

MutEnderecoSemStrip(data) ==
    IF DOMAIN data = {} THEN Rejeitar(400, "DADOS_OBRIGATORIOS")
    ELSE IF "endereco" \in DOMAIN data
    THEN IF ~EhTexto(data["endereco"]) THEN Rejeitar(500, "ERRO_SERVIDOR")
         ELSE IF Valor(data["endereco"]) = <<>>
         THEN Rejeitar(400, "ENDERECO_VAZIO")
         ELSE Aceitar("endereco", Strip(Valor(data["endereco"])))
    ELSE IF "cep" \in DOMAIN data
    THEN IF ~EhTexto(data["cep"]) THEN Rejeitar(500, "ERRO_SERVIDOR")
         ELSE IF Len(limpar_cep(Valor(data["cep"]))) # 8
         THEN Rejeitar(400, "CEP_INVALIDO")
         ELSE Aceitar("cep", Valor(data["cep"]))
    ELSE Rejeitar(400, "PARAMETRO_INVALIDO")

calcular_validacao(data) ==
    IF DOMAIN data = {} THEN Rejeitar(400, "DADOS_OBRIGATORIOS")
    ELSE IF "endereco" \in DOMAIN data
    THEN IF ~EhTexto(data["endereco"]) THEN Rejeitar(500, "ERRO_SERVIDOR")
         ELSE IF Strip(Valor(data["endereco"])) = <<>>
         THEN Rejeitar(400, "ENDERECO_VAZIO")
         ELSE Aceitar("endereco", Strip(Valor(data["endereco"])))
    ELSE IF "cep" \in DOMAIN data
    THEN IF ~EhTexto(data["cep"]) THEN Rejeitar(500, "ERRO_SERVIDOR")
         ELSE IF Len(limpar_cep(Valor(data["cep"]))) # 8
         THEN Rejeitar(400, "CEP_INVALIDO")
         ELSE Aceitar("cep", Valor(data["cep"]))
    ELSE Rejeitar(400, "PARAMETRO_INVALIDO")

\* ----------------------------------------------------------- threads
\* A request thread. rota, corpo, calc, arg: the request and the calculator it
\* runs; pc, etapa: where it is (etapa is the resolve under way, "origem" or
\* "destino", then "rota"); dados_cep, resultado, coord_origem, coord_destino,
\* tamanho_anterior: the code's local variables. The rest records what happened:
\* chamadas, the network calls made, by stage; quente, the stages whose cache
\* test found the key stored since the last clear, with no clear since; fria,
\* the stages whose cache test found the key not stored since the last clear;
\* apos, the stages that started after a resolve of their key had returned;
\* falha, the exception a resolve raised; resp_osrm, the routing answer;
\* servicos, the statuses /health reports for the three upstream services;
\* guardadas, the keys the request stored in the cache.
Livre ==
    [ rota |-> "-", corpo |-> CorpoVazio, calc |-> "-", arg |-> <<>>,
      pc |-> "livre", etapa |-> "-", dados_cep |-> "-",
      resultado |-> Nenhuma, coord_origem |-> Nenhuma, coord_destino |-> Nenhuma,
      chamadas |-> <<>>, quente |-> {}, fria |-> {}, apos |-> {},
      falha |-> "-", resp_osrm |-> SemRespostaOSRM, tamanho_anterior |-> 0,
      servicos |-> <<>>, guardadas |-> {}, resp |-> SemResposta ]

\* A response that is ready is delivered before any thread goes on.
SemEntregaPendente == \A u \in Threads : thr[u].pc # "fim"

Ocupadas == {u \in Threads : thr[u].pc # "livre"}

\* A request is taken by the first free thread; the requests that start while
\* another is under way are counted.
Desocupada(t) ==
    /\ thr[t].pc = "livre"
    /\ SemEntregaPendente
    /\ \A u \in Threads : u < t => thr[u].pc # "livre"
    /\ Ocupadas # {} => sobrepostos < MaxSobrepostos

Contar == sobrepostos' = IF Ocupadas # {} THEN sobrepostos + 1 ELSE sobrepostos

PcsResolve == {"chk", "rd", "viacep", "nom1", "nom2", "nom", "ret"}

\* The normalized key of the resolve a thread is in.
ChaveAtual(th) ==
    IF th.etapa = "origem" THEN ChaveCep(CEP_ORIGEM)
    ELSE IF th.calc = "cep" THEN ChaveCep(th.arg)
    ELSE ChaveEndereco(th.arg)

\* The raw input of the resolve a thread is in.
EntradaAtual(th) == IF th.etapa = "origem" THEN CEP_ORIGEM ELSE th.arg

PeloViaCEP(th) == th.etapa = "origem" \/ th.calc = "cep"

Chamada(th, svc, q) ==
    [th EXCEPT !.chamadas = Append(@, [etapa |-> th.etapa, svc |-> svc, q |-> q])]

\* `key in CACHE_COORDENADAS`
MutCacheNuncaAcerta(chave, cache) == FALSE

CacheHit(chave, cache) == chave \in DOMAIN cache

\* CACHE_COORDENADAS[key] = resultado
Guardar(cache, chave, resultado) ==
    [k \in DOMAIN cache \cup {chave} |-> IF k = chave THEN resultado ELSE cache[k]]

\* A fee calculator starts: the depot is resolved first.
IniciarCalculo(rota, corpo, calc, arg) ==
    [ Livre EXCEPT !.rota = rota, !.corpo = corpo, !.calc = calc, !.arg = arg,
                   !.pc = "chk", !.etapa = "origem",
                   !.apos = IF ChaveCep(CEP_ORIGEM) \in retornadas THEN {"origem"} ELSE {} ]

\* A resolve of the thread ends with an exception: the fee calculator's except
\* branch turns it into the error variant and the handler answers.
Falhar(th, mensagem) ==
    LET resultado == IF th.calc = "cep"
                     THEN calcular_taxa_deslocamento_except(mensagem)
                     ELSE calcular_taxa_por_endereco_except(mensagem)
    IN  [th EXCEPT !.pc = "fim", !.falha = mensagem,
                   !.resp = Resposta(StatusDaRota(th.rota, resultado), resultado, -1)]

\* A resolve of the thread returns coord: the destination is resolved next, or
\* the estimator is called. ret is the value of retornadas after the return.
MutDevolverSemDestino(th, coord, ret) ==
    [th EXCEPT !.coord_origem = coord, !.coord_destino = coord, !.etapa = "destino",
               !.pc = "osrm", !.resultado = Nenhuma, !.dados_cep = "-"]

Devolver(th, coord, ret) ==
    IF th.etapa = "origem"
    THEN LET prox == [th EXCEPT !.coord_origem = coord, !.etapa = "destino", !.pc = "chk",
                                !.resultado = Nenhuma, !.dados_cep = "-"]
         IN  [prox EXCEPT !.apos = IF ChaveAtual(prox) \in ret THEN @ \cup {"destino"} ELSE @]
    ELSE [th EXCEPT !.coord_destino = coord, !.pc = "osrm",
                    !.resultado = Nenhuma, !.dados_cep = "-"]

\* ------------------------------------------------------------- Init
CacheVazio == [k \in {} |-> Nenhuma]

SaidaVazia == [calc |-> "-", r1 |-> SemTaxa, r2 |-> SemTaxa]

Init ==
    /\ CACHE_COORDENADAS = CacheVazio
    /\ thr = [t \in Threads |-> Livre]
    /\ sobrepostos = 0
    /\ resolvidas = {}
    /\ retornadas = {}
    /\ entrada = [d1 |-> 0, d2 |-> 0, dur |-> 0]
    /\ saida = SaidaVazia

\* Thread t is at pc and may take its step.
Em(t, pc) == thr[t].pc = pc /\ SemEntregaPendente

\* ---------------------------------------------------------- requests
\* POST /calcular with a JSON body
calcular(t, data) ==
    /\ Desocupada(t)
    /\ LET v == calcular_validacao(data)
           rejeitada == Resultado("erro", v.codigo, v.codigo, SemTaxa)
       IN  thr' = [thr EXCEPT ![t] =
                IF v.acao = "responder"
                THEN [Livre EXCEPT !.rota = "calcular", !.corpo = data, !.pc = "fim",
                                   !.resp = Resposta(v.http, rejeitada, -1)]
                ELSE IniciarCalculo("calcular", data, v.acao, v.arg)]
    /\ Contar
    /\ UNCHANGED <<CACHE_COORDENADAS, resolvidas, retornadas, entrada, saida>>

\* GET /teste/<cep>
teste(t, cep) ==
    /\ Desocupada(t)
    /\ thr' = [thr EXCEPT ![t] = IniciarCalculo("teste", CorpoVazio, "cep", cep)]
    /\ Contar
    /\ UNCHANGED <<CACHE_COORDENADAS, resolvidas, retornadas, entrada, saida>>

\* GET /teste-endereco/<endereco>
teste_endereco(t, endereco) ==
    /\ Desocupada(t)
    /\ thr' = [thr EXCEPT ![t] =
                 IniciarCalculo("teste_endereco", CorpoVazio, "endereco", endereco)]
    /\ Contar
    /\ UNCHANGED <<CACHE_COORDENADAS, resolvidas, retornadas, entrada, saida>>

\* POST /limpar-cache: tamanho_anterior = len(CACHE_COORDENADAS)
limpar_cache(t) ==
    /\ Desocupada(t)
    /\ thr' = [thr EXCEPT ![t] =
                 [Livre EXCEPT !.rota = "limpar_cache", !.pc = "limpar",
                               !.tamanho_anterior = Cardinality(DOMAIN CACHE_COORDENADAS)]]
    /\ Contar
    /\ UNCHANGED <<CACHE_COORDENADAS, resolvidas, retornadas, entrada, saida>>

\* The count /limpar-cache reports.
EntradasRemovidas(tamanho_anterior, cache) == tamanho_anterior

\* `CACHE_COORDENADAS = {}`
MutNaoLimpa(cache) == cache

CacheAposLimpar(cache) == CacheVazio

\* POST /limpar-cache: CACHE_COORDENADAS = {} and the response. A resolve that is
\* under way is no longer one that runs with its key stored and no clear since.
limpar_cache_esvaziar(t) ==
    /\ Em(t, "limpar")
    /\ CACHE_COORDENADAS' = CacheAposLimpar(CACHE_COORDENADAS)
    /\ resolvidas' = {}
    /\ retornadas' = {}
    /\ thr' = [u \in Threads |->
                 IF u = t
                 THEN [thr[u] EXCEPT
                         !.pc = "fim",
                         !.resp = Resposta(200, Resultado("sucesso", "", "", SemTaxa),
                                     EntradasRemovidas(thr[u].tamanho_anterior, CACHE_COORDENADAS'))]
                 ELSE IF thr[u].pc \in PcsResolve
                 THEN [thr[u] EXCEPT !.quente = @ \ {thr[u].etapa}]
                 ELSE thr[u]]
    /\ UNCHANGED <<sobrepostos, entrada, saida>>

\* ---------------------------------------------------------- resolvers
\* `if key in CACHE_COORDENADAS` of either resolver
verificar_cache(t) ==
    LET th == thr[t]
        k == ChaveAtual(th)
        marcada == [th EXCEPT !.quente = IF k \in resolvidas THEN @ \cup {th.etapa} ELSE @,
                              !.fria = IF k \in resolvidas THEN @ ELSE @ \cup {th.etapa}]
    IN  /\ Em(t, "chk")
        /\ thr' = [thr EXCEPT ![t] =
                     [marcada EXCEPT !.pc = IF CacheHit(k, CACHE_COORDENADAS) THEN "rd"
                                            ELSE IF PeloViaCEP(th) THEN "viacep" ELSE "nom"]]
        /\ UNCHANGED <<sobrepostos, CACHE_COORDENADAS, resolvidas, retornadas, entrada, saida>>

\* `return CACHE_COORDENADAS[key]`: the value, or KeyError when a clear came
\* between the test and the read
ler_cache(t) ==
    LET th == thr[t]
        k == ChaveAtual(th)
    IN  /\ Em(t, "rd")
        /\ IF k \in DOMAIN CACHE_COORDENADAS
           THEN /\ retornadas' = retornadas \cup {k}
                /\ thr' = [thr EXCEPT ![t] = Devolver(th, CACHE_COORDENADAS[k], retornadas')]
           ELSE /\ retornadas' = retornadas
                /\ thr' = [thr EXCEPT ![t] = Falhar(th, "KeyError")]
        /\ UNCHANGED <<sobrepostos, CACHE_COORDENADAS, resolvidas, entrada, saida>>

\* requests.get(viacep_url): the registry's answer
consultar_viacep(t, ans) ==
    LET th == Chamada(thr[t], "viacep", "cep")
    IN  /\ Em(t, "viacep")
        /\ thr' = [thr EXCEPT ![t] =
                     CASE ans = "http" -> Falhar(th, "CEP nao encontrado")
                       [] ans = "erro" -> Falhar(th, "CEP invalido")
                       [] ans = "excecao" -> Falhar(th, "erro de rede")
                       [] OTHER -> [th EXCEPT !.pc = "nom1", !.dados_cep = ans]]
        /\ UNCHANGED <<sobrepostos, CACHE_COORDENADAS, resolvidas, retornadas, entrada, saida>>

\* The resolver has its result: it is stored under the key, then returned.
Resolver(t, th, coord) ==
    LET k == ChaveAtual(th)
    IN  /\ CACHE_COORDENADAS' = Guardar(CACHE_COORDENADAS, k, coord)
        /\ resolvidas' = resolvidas \cup {k}
        /\ thr' = [thr EXCEPT ![t] = [th EXCEPT !.pc = "ret", !.resultado = coord,
                                                     !.guardadas = @ \cup {k}]]
        /\ UNCHANGED <<sobrepostos, retornadas, entrada, saida>>

MutFalhaGuarda(t, th) ==
    /\ thr' = [thr EXCEPT ![t] = th]
    /\ CACHE_COORDENADAS' = Guardar(CACHE_COORDENADAS, ChaveAtual(th), th.resultado)
    /\ UNCHANGED <<sobrepostos, resolvidas, retornadas, entrada, saida>>

SemMudanca(t, th) ==
    /\ thr' = [thr EXCEPT ![t] = th]
    /\ UNCHANGED <<sobrepostos, CACHE_COORDENADAS, resolvidas, retornadas, entrada, saida>>

\* The query of the first geocoder call: the street-level address when the
\* registry gave a street, else city and region.
PrimeiraBusca(dados_cep) == IF dados_cep = "rua" THEN "rua" ELSE "cidade"

\* first requests.get(nominatim_url) of obter_coordenadas_viacep
geocodificar_cep(t, ans) ==
    LET th == Chamada(thr[t], "nominatim", PrimeiraBusca(thr[t].dados_cep))
    IN  /\ Em(t, "nom1")
        /\ CASE ans.tipo = "achou" ->
                  Resolver(t, th, Coordenada(ans.ponto[1], ans.ponto[2],
                                    IF th.dados_cep = "rua" THEN "rua" ELSE "bairro"))
             [] ans.tipo = "excecao" -> SemMudanca(t, Falhar(th, "erro de rede"))
             [] OTHER -> SemMudanca(t, [th EXCEPT !.pc = "nom2"])

\* second requests.get(nominatim_url), city only, then the static table
geocodificar_cidade(t, ans) ==
    LET th == Chamada(thr[t], "nominatim", "cidade")
        tab == TabelaEstatica(ChaveAtual(th))
    IN  /\ Em(t, "nom2")
        /\ CASE ans.tipo = "achou" ->
                  Resolver(t, th, Coordenada(ans.ponto[1], ans.ponto[2], "cidade"))
             [] ans.tipo = "excecao" -> SemMudanca(t, Falhar(th, "erro de rede"))
             [] OTHER ->
                  IF tab = <<>>
                  THEN SemMudanca(t, Falhar(th, "sem coordenadas"))
                  ELSE Resolver(t, th, Coordenada(tab[1][1], tab[1][2], "aproximado"))

\* requests.get(nominatim_url) of obter_coordenadas_por_endereco
geocodificar_endereco(t, ans) ==
    LET th == Chamada(thr[t], "nominatim", "livre")
    IN  /\ Em(t, "nom")
        /\ CASE ans.tipo = "achou" ->
                  Resolver(t, th, Coordenada(ans.ponto[1], ans.ponto[2], "display_name"))
             [] ans.tipo = "excecao" -> SemMudanca(t, Falhar(th, "erro de rede"))
             [] OTHER -> SemMudanca(t, Falhar(th, "Endereco nao encontrado"))

\* `return resultado` after the store
retornar(t) ==
    LET th == thr[t]
    IN  /\ Em(t, "ret")
        /\ retornadas' = retornadas \cup {ChaveAtual(th)}
        /\ thr' = [thr EXCEPT ![t] = Devolver(th, th.resultado, retornadas')]
        /\ UNCHANGED <<sobrepostos, CACHE_COORDENADAS, resolvidas, entrada, saida>>

\* calcular_distancia_osrm, the fee formula and the handler's response
estimar_e_taxar(t, ans) ==
    LET th == Chamada([thr[t] EXCEPT !.etapa = "rota"], "osrm", "rota")
        rd == calcular_distancia_osrm(th.coord_origem, th.coord_destino, ans)
        taxa == IF th.calc = "cep" THEN TaxaDeslocamento(rd) ELSE TaxaPorEndereco(rd)
        resultado == Resultado("sucesso", "", "", taxa)
    IN  /\ Em(t, "osrm")
        /\ thr' = [thr EXCEPT ![t] =
                     [th EXCEPT !.pc = "fim", !.resp_osrm = ans,
                                !.resp = Resposta(StatusDaRota(th.rota, resultado), resultado, -1)]]
        /\ UNCHANGED <<sobrepostos, CACHE_COORDENADAS, resolvidas, retornadas, entrada, saida>>

\* The response leaves the server and the thread is free again.
entregar(t) ==
    /\ thr[t].pc = "fim"
    /\ thr' = [thr EXCEPT ![t] = Livre]
    /\ UNCHANGED <<sobrepostos, CACHE_COORDENADAS, resolvidas, retornadas, entrada, saida>>

\* GET /: a fixed description of the API
home(t) ==
    /\ Desocupada(t)
    /\ thr' = [thr EXCEPT ![t] =
                 [Livre EXCEPT !.rota = "home", !.pc = "fim",
                               !.resp = Resposta(200, Resultado("-", "", "", SemTaxa), -1)]]
    /\ Contar
    /\ UNCHANGED <<CACHE_COORDENADAS, resolvidas, retornadas, entrada, saida>>

\* The answer to one probe of /health: an exception, or a status code.
Sonda(excecao, status_code) == [excecao |-> excecao, status_code |-> status_code]

Sondas == { Sonda(FALSE, 200), Sonda(FALSE, 503), Sonda(TRUE, 0) }

\* "operacional" if r.status_code == 200 else "com problema"; except: "inacessivel"
EstadoDoServico(r) ==
    IF r.excecao THEN "inacessivel"
    ELSE IF r.status_code = 200 THEN "operacional" ELSE "com problema"

\* The services /health probes, in the order of the code.
ServicosSondados == <<"viacep", "nominatim", "osrm">>

\* GET /health: status["cache_size"] = len(CACHE_COORDENADAS); the probes follow.
health(t) ==
    /\ Desocupada(t)
    /\ thr' = [thr EXCEPT ![t] =
                 [Livre EXCEPT !.rota = "health", !.pc = "sonda",
                               !.tamanho_anterior = Cardinality(DOMAIN CACHE_COORDENADAS)]]
    /\ Contar
    /\ UNCHANGED <<CACHE_COORDENADAS, resolvidas, retornadas, entrada, saida>>

\* One probe of /health is answered (requests.get in its own try/except); after
\* the third the handler responds with the size it read at the start.
health_sondar(t, r) ==
    LET svc == ServicosSondados[Len(thr[t].servicos) + 1]
        th == [Chamada(thr[t], svc, "sonda") EXCEPT
                  !.servicos = Append(@, EstadoDoServico(r))]
    IN  /\ Em(t, "sonda")
        /\ thr' = [thr EXCEPT ![t] =
                     IF Len(th.servicos) < Len(ServicosSondados) THEN th
                     ELSE [th EXCEPT !.pc = "fim",
                                     !.resp = Resposta(200, Resultado("online", "", "", SemTaxa), -1)]]
        /\ UNCHANGED <<sobrepostos, CACHE_COORDENADAS, resolvidas, retornadas, entrada, saida>>

\* One step of the server with threads T serving the requests drawn from
\* bodies C, postal codes P and addresses E, with /health probes answered from S.
Passo(T, C, P, E, S) ==
    \/ \E t \in T : home(t)
    \/ \E t \in T : health(t)
    \/ \E t \in T, r \in S : health_sondar(t, r)
    \/ \E t \in T, data \in C : calcular(t, data)
    \/ \E t \in T, cep \in P : teste(t, cep)
    \/ \E t \in T, e \in E : teste_endereco(t, e)
    \/ \E t \in T : limpar_cache(t)
    \/ \E t \in T : limpar_cache_esvaziar(t)
    \/ \E t \in T : verificar_cache(t)
    \/ \E t \in T : ler_cache(t)
    \/ \E t \in T, ans \in RespostasViaCEP : consultar_viacep(t, ans)
    \/ \E t \in T, ans \in RespostasNominatim : geocodificar_cep(t, ans)
    \/ \E t \in T, ans \in RespostasNominatim : geocodificar_cidade(t, ans)
    \/ \E t \in T, ans \in RespostasNominatim : geocodificar_endereco(t, ans)
    \/ \E t \in T : retornar(t)
    \/ \E t \in T, ans \in RespostasOSRM : estimar_e_taxar(t, ans)
    \/ \E t \in T : entregar(t)

\* Requests of the concurrent workload: the races are between resolves of few keys.
CorposConc == { ("endereco" :> Texto(<<"R", "b">>)) }

CepsConc == { <<"1","7","0","1","7","3","3","7">> }

EnderecosConc == { <<" ","r","b"," ">> }

\* Both threads serve requests, in every interleaving.
\* The probes of /health in the concurrent workload: every service answers 200.
SondasConc == { Sonda(FALSE, 200) }

Next == Passo(Threads, CorposConc, CepsConc, EnderecosConc, SondasConc)

Spec == Init /\ [][Next]_vars

\* One thread serves every request of the model, one request after the other.
NextSeq == Passo({1}, Corpos, CepsEntrada, EnderecosEntrada, Sondas)

SpecSeq == Init /\ [][NextSeq]_vars

\* ------------------------------------------------- fee specification
\* One-way distances in 0.001 m: every whole kilometre up to MaxKm, and every
\* half metre within JanelaM metres of the franchise (the routing service
\* reports fractions of a metre).
Distancias ==
    {k * 1000000 : k \in 0..MaxKm}
    \cup {FRANQUIA_KM_IDA * 1000000 + h * 500 : h \in (0 - 2 * JanelaM)..(2 * JanelaM)}

Duracoes == {90, 2430}

InitTaxa ==
    /\ CACHE_COORDENADAS = CacheVazio
    /\ thr = [t \in Threads |-> Livre]
    /\ sobrepostos = 0
    /\ resolvidas = {}
    /\ retornadas = {}
    /\ entrada \in {[d1 |-> a, d2 |-> b, dur |-> s] :
                      a \in Distancias, b \in Distancias, s \in Duracoes}
    /\ entrada.d1 <= entrada.d2
    /\ saida = SaidaVazia

\* The estimator's result for a distance of d (0.001 m) and s seconds.
Estimativa(d, s) ==
    [distancia_metros |-> d, duracao_segundos |-> s * 1000, metodo |-> "osrm"]

AplicarTaxaDeslocamento ==
    /\ saida.calc # "cep"
    /\ saida' = [ calc |-> "cep",
                  r1 |-> TaxaDeslocamento(Estimativa(entrada.d1, entrada.dur)),
                  r2 |-> TaxaDeslocamento(Estimativa(entrada.d2, entrada.dur)) ]
    /\ UNCHANGED <<sistema, entrada>>

AplicarTaxaPorEndereco ==
    /\ saida.calc # "endereco"
    /\ saida' = [ calc |-> "endereco",
                  r1 |-> TaxaPorEndereco(Estimativa(entrada.d1, entrada.dur)),
                  r2 |-> TaxaPorEndereco(Estimativa(entrada.d2, entrada.dur)) ]
    /\ UNCHANGED <<sistema, entrada>>

NextTaxa == AplicarTaxaDeslocamento \/ AplicarTaxaPorEndereco

SpecTaxa == InitTaxa /\ [][NextTaxa]_vars

\* =============================================================== claims
Fim(t) == thr[t].pc = "fim"

\* The network calls a thread made in stage e of its fee calculation.
ChamadasDe(th, e) == SelectSeq(th.chamadas, LAMBDA c : c.etapa = e)

\* The coordinate a thread holds for stage e once that stage has returned.
CoordDe(th, e) == IF e = "origem" THEN th.coord_origem ELSE th.coord_destino

\* ----------------------------------------------------------------- C1
\* C1 as stated: a resolve that starts after a resolve of the same key has
\* returned successfully, with no clear-cache between that return and its start,
\* issues no network call.
C1_AposRetornoSemRede ==
    \A t \in Threads : \A e \in thr[t].apos : ChamadasDe(thr[t], e) = <<>>

\* C1 (amended): once a resolve has stored its result under key k, every resolve
\* of k that tests the cache afterwards, with no clear-cache between that store
\* and its own return, issues no network call and returns the value the cache
\* holds under k.
C1_CacheHitCurtoCircuito ==
    /\ [](\A t \in Threads : \A e \in thr[t].quente : ChamadasDe(thr[t], e) = <<>>)
    /\ [][\A t \in Threads :
            (thr[t].pc = "rd" /\ thr[t].etapa \in thr[t].quente /\ thr'[t].pc # "rd")
            => /\ thr'[t].falha = "-"
               /\ CoordDe(thr'[t], thr[t].etapa) = CACHE_COORDENADAS[ChaveAtual(thr[t])]]_vars

\* Both resolves of an address request were served from the cache, over keys
\* stored by earlier requests, and the estimator is about to be called.
C1_Witness ==
    \E t \in Threads :
        /\ thr[t].pc = "osrm"
        /\ thr[t].calc = "endereco"
        /\ thr[t].quente = {"origem", "destino"}
        /\ thr[t].chamadas = <<>>
        /\ thr[t].coord_destino = CACHE_COORDENADAS[ChaveEndereco(thr[t].arg)]

\* ----------------------------------------------------------------- C2
FormulaDaTaxa(d, r) ==
    IF d > 30000000
    THEN /\ r.km_excedente_mm = 2 * d - 60000000
         /\ r.km_excedente_mm % 1000 = 0
         /\ r.valor_taxa_mc = (r.km_excedente_mm \div 1000) * 160
    ELSE r.km_excedente_mm = 0 /\ r.valor_taxa_mc = 0

Cenarios(d, r) ==
    /\ d = 50000000 => r.ida_volta_km = 10000 /\ r.km_excedente = 4000 /\ r.valor_taxa = 6400
    /\ d = 2000000 => r.km_excedente = 0 /\ r.valor_taxa = 0

\* C2: for every one-way distance d, both fee calculators give km_excedente =
\* 2d - 60 and valor_taxa = km_excedente * 1.60 when d > 30 km, and 0 and 0
\* otherwise; 50 km gives round trip 100, excess 40, fee 64.00; 2 km gives fee 0.
C2_FormulaDaTaxa ==
    saida.calc # "-" =>
        /\ FormulaDaTaxa(entrada.d1, saida.r1) /\ FormulaDaTaxa(entrada.d2, saida.r2)
        /\ Cenarios(entrada.d1, saida.r1) /\ Cenarios(entrada.d2, saida.r2)

C2_Witness ==
    /\ saida.calc = "cep"
    /\ entrada.d1 = 2000000 /\ saida.r1.valor_taxa = 0
    /\ entrada.d2 = 50000000 /\ saida.r2.valor_taxa = 6400 /\ saida.r2.km_excedente = 4000

\* ----------------------------------------------------------------- C3
\* C3: the fee does not decrease with the one-way distance, is 0 up to and
\* including 30 km and is never negative, before and after rounding.
C3_TaxaMonotona ==
    saida.calc # "-" =>
        /\ saida.r1.valor_taxa_mc <= saida.r2.valor_taxa_mc
        /\ saida.r1.valor_taxa <= saida.r2.valor_taxa
        /\ entrada.d1 <= 30000000 => saida.r1.valor_taxa_mc = 0 /\ saida.r1.valor_taxa = 0
        /\ entrada.d2 <= 30000000 => saida.r2.valor_taxa_mc = 0 /\ saida.r2.valor_taxa = 0
        /\ saida.r1.valor_taxa_mc >= 0 /\ saida.r1.valor_taxa >= 0
        /\ saida.r2.valor_taxa_mc >= 0 /\ saida.r2.valor_taxa >= 0

C3_Witness ==
    /\ saida.calc = "endereco"
    /\ entrada.d1 = 30000000 /\ saida.r1.valor_taxa_mc = 0
    /\ entrada.d2 = 30001000 /\ saida.r2.valor_taxa_mc = 320

\* ----------------------------------------------------------------- C4
\* The body of a POST /calcular carries a string 'cep' that does not leave
\* exactly 8 digits.
CepMalformado(th) ==
    /\ th.rota = "calcular"
    /\ "cep" \in DOMAIN th.corpo
    /\ EhTexto(th.corpo["cep"])
    /\ Len(limpar_cep(Valor(th.corpo["cep"]))) # 8

RespondeuCepInvalido(th) ==
    /\ th.pc = "fim"
    /\ th.resp.http = 400
    /\ th.resp.corpo.codigo = "CEP_INVALIDO"
    /\ th.chamadas = <<>>

\* C4 as stated: every POST /calcular whose 'cep' does not leave exactly 8
\* digits is answered 400 CEP_INVALIDO without a network call.
C4_TodoCepMalformado ==
    \A t \in Threads : CepMalformado(thr[t]) => RespondeuCepInvalido(thr[t])

\* C4 (amended): every POST /calcular whose body has no 'endereco' key and whose
\* 'cep' does not leave exactly 8 digits is answered 400 CEP_INVALIDO, without a
\* network call and with the cache as it was.
C4_CepMalformadoSemEndereco ==
    /\ [](\A t \in Threads :
            (CepMalformado(thr[t]) /\ "endereco" \notin DOMAIN thr[t].corpo)
            => RespondeuCepInvalido(thr[t]))
    /\ [][\A t \in Threads :
            (thr[t].pc = "livre" /\ CepMalformado(thr'[t])
             /\ "endereco" \notin DOMAIN thr'[t].corpo)
            => CACHE_COORDENADAS' = CACHE_COORDENADAS]_vars

\* {"cep": "123"} was rejected while the cache held an entry.
C4_Witness ==
    \E t \in Threads :
        /\ thr[t].corpo = ("cep" :> Texto(<<"1","2","3">>))
        /\ RespondeuCepInvalido(thr[t])
        /\ CACHE_COORDENADAS # CacheVazio

\* ----------------------------------------------------------------- C5
\* The body POST /calcular would carry for the input of a GET request.
CorpoEquivalente(th) ==
    IF th.rota = "teste" THEN ("cep" :> Texto(th.arg)) ELSE ("endereco" :> Texto(th.arg))

\* C5: a GET /teste/<cep> or /teste-endereco/<endereco> whose input POST
\* /calcular rejects is answered with the same status and error code, and
\* without a network call; an input POST accepts runs the same calculator on
\* the same key.
C5_GetIgualPost ==
    \A t \in Threads :
        thr[t].rota \in {"teste", "teste_endereco"} =>
            LET th == thr[t]
                v == calcular_validacao(CorpoEquivalente(th))
            IN  IF v.acao = "responder"
                THEN /\ th.pc = "fim"
                     /\ th.resp.http = v.http
                     /\ th.resp.corpo.codigo = v.codigo
                     /\ th.chamadas = <<>>
                ELSE /\ th.calc = v.acao
                     /\ IF th.calc = "cep" THEN ChaveCep(th.arg) = ChaveCep(v.arg)
                        ELSE ChaveEndereco(th.arg) = ChaveEndereco(v.arg)

\* ----------------------------------------------------------------- C6
\* C6: a resolve that fails, whatever the failure, makes the fee calculator
\* return {erro, ERRO_CALCULO, the failure's message}, which the handler answers
\* with 400; a 500 never follows a network call.
C6_FronteiraDeErro ==
    \A t \in Threads :
        LET th == thr[t]
        IN  /\ th.falha # "-" =>
                /\ th.pc = "fim"
                /\ th.resp.http = 400
                /\ th.resp.corpo.status = "erro"
                /\ th.resp.corpo.codigo = "ERRO_CALCULO"
                /\ th.resp.corpo.mensagem = th.falha
            /\ (th.pc = "fim" /\ th.chamadas # <<>>) => th.resp.http \in {200, 400}
            /\ (th.pc = "fim" /\ th.calc # "-") => th.resp.http \in {200, 400}

\* The destination of POST {"cep": "99999-999"} is in the table by neither
\* prefix and the geocoder found nothing.
C6_Witness ==
    \E t \in Threads :
        /\ thr[t].pc = "fim"
        /\ thr[t].rota = "calcular"
        /\ thr[t].calc = "cep"
        /\ thr[t].falha = "sem coordenadas"
        /\ thr[t].resp.http = 400
        /\ thr[t].resp.corpo.codigo = "ERRO_CALCULO"

\* ----------------------------------------------------------------- C7
\* Status 200, code Ok and at least one route.
RotaAceita(r) ==
    /\ ~r.excecao
    /\ r.status_code = 200
    /\ r.json
    /\ r.code = "Ok"
    /\ r.routes # <<>>

RotaCompleta(r) == RotaAceita(r) /\ {"distance", "duration"} \subseteq DOMAIN r.routes[1]

\* The thread called the estimator and has its answer.
Estimou(th) == th.pc = "fim" /\ th.resp_osrm.tipo # "-"

SucessoComMetodo(th) ==
    /\ th.resp.http = 200
    /\ th.resp.corpo.status = "sucesso"
    /\ th.resp.corpo.taxa.metodo_calculo \in {"osrm", "haversine_ajustado"}

\* C7 as stated: the estimator always returns; its result is tagged osrm exactly
\* when the routing response had status 200, code Ok and at least one route.
C7_OsrmSeRotaAceita ==
    \A t \in Threads :
        Estimou(thr[t]) =>
            /\ SucessoComMetodo(thr[t])
            /\ thr[t].resp.corpo.taxa.metodo_calculo = "osrm" <=> RotaAceita(thr[t].resp_osrm)

\* C7 (amended): the estimator always returns; its result is tagged osrm, and
\* carries the route's distance, exactly when the routing response had status
\* 200, code Ok and a first route with distance and duration; in every other
\* case it is tagged haversine_ajustado.
C7_EstimadorTotal ==
    \A t \in Threads :
        Estimou(thr[t]) =>
            LET th == thr[t]
                taxa == th.resp.corpo.taxa
            IN  /\ SucessoComMetodo(th)
                /\ taxa.metodo_calculo = "osrm" <=> RotaCompleta(th.resp_osrm)
                /\ RotaCompleta(th.resp_osrm) =>
                       taxa.ida_volta_km = RoundNearest(th.resp_osrm.routes[1]["distance"] * 2, 10)
                /\ ~RotaCompleta(th.resp_osrm) =>
                       taxa.ida_km = Round2Km(
                           calcular_distancia_haversine(th.coord_origem, th.coord_destino).distancia_metros)

\* Status 200 and code Ok, but the first route has no distance: the great-circle
\* estimate was returned.
C7_Witness ==
    \E t \in Threads :
        /\ Estimou(thr[t])
        /\ thr[t].resp_osrm.tipo = "rota_incompleta"
        /\ thr[t].resp.http = 200
        /\ thr[t].resp.corpo.taxa.metodo_calculo = "haversine_ajustado"

\* ----------------------------------------------------------------- C8
\* Stage e of the thread's calculation resolves a postal code.
EtapaDeCep(th, e) == e = "origem" \/ (e = "destino" /\ th.calc = "cep")

\* The calls of one postal-code resolve, in order: the registry, the geocoder,
\* the geocoder with city and region.
OrdemDaCadeia(L) ==
    /\ Len(L) <= 3
    /\ Len(L) >= 1 => L[1].svc = "viacep"
    /\ Len(L) >= 2 => L[2].svc = "nominatim"
    /\ Len(L) >= 3 => L[3].svc = "nominatim" /\ L[3].q = "cidade"

\* The thread is inside the resolve of its current stage, or failed in it.
NaCadeia(th) == th.pc \in {"viacep", "nom1", "nom2", "ret"} \/ th.falha # "-"

\* What the static table holds for a key: the 5-digit prefix, then the 2-digit.
TemPrefixo(k) ==
    \/ Prefixo(k, 5) \in DOMAIN coordenadas_cidades
    \/ Prefixo(k, 2) \in DOMAIN coordenadas_cidades

DaTabela(k) ==
    IF Prefixo(k, 5) \in DOMAIN coordenadas_cidades
    THEN coordenadas_cidades[Prefixo(k, 5)]
    ELSE coordenadas_cidades[Prefixo(k, 2)]

\* The rest of the chain, for the resolve the thread is in or failed in: the
\* registry's not-found ends it; a geocoder result ends it; the table comes
\* after two geocoder calls; it fails over the table exactly when no prefix
\* matches.
FimDaCadeia(th, L) ==
    /\ th.falha \in {"CEP nao encontrado", "CEP invalido"} => Len(L) = 1
    /\ (th.pc = "ret" /\ th.resultado.endereco \in {"rua", "bairro"}) => Len(L) = 2
    /\ (th.pc = "ret" /\ th.resultado.endereco = "cidade") => Len(L) = 3
    /\ (th.pc = "ret" /\ th.resultado.endereco = "aproximado") =>
           /\ Len(L) = 3
           /\ TemPrefixo(ChaveAtual(th))
           /\ <<th.resultado.lat, th.resultado.lon>> = DaTabela(ChaveAtual(th))
    /\ th.falha = "sem coordenadas" => Len(L) = 3 /\ ~TemPrefixo(ChaveAtual(th))

\* C8 as stated: the registry first, then the geocoder with the full
\* street-level address, then with city and region, then the table, 5-digit
\* prefix before 2-digit; at most one registry and two geocoder calls.
C8_PrimeiroARua ==
    \A t \in Threads : \A e \in {"origem", "destino"} :
        EtapaDeCep(thr[t], e) =>
            LET L == ChamadasDe(thr[t], e)
            IN  /\ OrdemDaCadeia(L)
                /\ Len(L) >= 2 => L[2].q = "rua"
                /\ (e = thr[t].etapa /\ NaCadeia(thr[t])) => FimDaCadeia(thr[t], L)

\* C8 (amended): the registry first, then the geocoder with the full
\* street-level address when the registry gave a street and with city and
\* region when it gave none, then the geocoder with city and region, then the
\* table, 5-digit prefix before 2-digit; at most one registry and two geocoder
\* calls; not-found ends the resolve without a geocoder call and the table
\* fails it exactly when neither prefix matches.
C8_CadeiaDeFallback ==
    \A t \in Threads : \A e \in {"origem", "destino"} :
        EtapaDeCep(thr[t], e) =>
            LET L == ChamadasDe(thr[t], e)
            IN  /\ OrdemDaCadeia(L)
                /\ (e = thr[t].etapa /\ NaCadeia(thr[t])) =>
                       /\ FimDaCadeia(thr[t], L)
                       /\ Len(L) >= 2 =>
                              L[2].q = IF thr[t].dados_cep = "rua" THEN "rua" ELSE "cidade"

\* 17500-005 resolved from the table by its 5-digit prefix, after the registry
\* gave a street and both geocoder calls found nothing.
C8_Witness ==
    \E t \in Threads :
        /\ thr[t].pc = "ret"
        /\ thr[t].etapa = "destino"
        /\ thr[t].calc = "cep"
        /\ ChaveAtual(thr[t]) = <<"1","7","5","0","0","0","0","5">>
        /\ thr[t].dados_cep = "rua"
        /\ thr[t].resultado = Coordenada(-224249, -499461, "aproximado")
        /\ Len(ChamadasDe(thr[t], "destino")) = 3

\* ----------------------------------------------------------------- C9
\* Stage e of the thread's calculation has returned a coordinate.
Devolvida(th, e) ==
    \/ e = "origem" /\ th.etapa \in {"destino", "rota"}
    \/ e = "destino" /\ (th.pc = "osrm" \/ th.etapa = "rota")

\* C9: POST /limpar-cache reports the number of entries the cache held when it
\* was called, which is the number of keys resolved since the previous clear,
\* leaves the cache empty, and every resolve that tests the cache for a key not
\* stored again since the clear issues a network call before it returns.
C9_LimparCache ==
    /\ [](\A t \in Threads : \A e \in {"origem", "destino"} :
            (Devolvida(thr[t], e) /\ e \in thr[t].fria)
            => ChamadasDe(thr[t], e) # <<>>)
    /\ [][\A t \in Threads :
            /\ (thr[t].pc = "livre" /\ thr'[t].pc = "limpar")
               => /\ thr'[t].tamanho_anterior = Cardinality(DOMAIN CACHE_COORDENADAS)
                  /\ thr'[t].tamanho_anterior = Cardinality(resolvidas)
            /\ (thr[t].pc = "limpar" /\ thr'[t].pc = "fim")
               => /\ thr'[t].resp.removidas = thr[t].tamanho_anterior
                  /\ CACHE_COORDENADAS' = CacheVazio]_vars

\* The clear after two resolves of distinct keys reported 2.
C9_Witness ==
    \E t \in Threads :
        /\ thr[t].pc = "fim"
        /\ thr[t].rota = "limpar_cache"
        /\ thr[t].resp.removidas = 2
        /\ CACHE_COORDENADAS = CacheVazio

\* ---------------------------------------------------------------- C10
TemEndereco(th) == "endereco" \in DOMAIN th.corpo

TemCep(th) == "cep" \in DOMAIN th.corpo

EnderecoBom(th) ==
    /\ TemEndereco(th)
    /\ EhTexto(th.corpo["endereco"])
    /\ Strip(Valor(th.corpo["endereco"])) # <<>>

CepBom(th) ==
    /\ TemCep(th)
    /\ EhTexto(th.corpo["cep"])
    /\ Len(limpar_cep(Valor(th.corpo["cep"]))) = 8

SemChaves(th) ==
    /\ DOMAIN th.corpo = {} => th.resp.http = 400 /\ th.resp.corpo.codigo = "DADOS_OBRIGATORIOS"
    /\ (DOMAIN th.corpo # {} /\ ~TemEndereco(th) /\ ~TemCep(th)) =>
           th.resp.http = 400 /\ th.resp.corpo.codigo = "PARAMETRO_INVALIDO"

Rejeitada(th) == th.pc = "fim" /\ th.chamadas = <<>> /\ th.resp.http \in {400, 500}

\* C10 as stated: POST /calcular runs a fee calculation only when the body has
\* exactly one of a non-blank 'endereco' and an 8-digit 'cep'; a body with both
\* keys is rejected; a rejected request makes no network call.
C10_ExatamenteUma ==
    \A t \in Threads :
        thr[t].rota = "calcular" =>
            LET th == thr[t]
                aceita == \/ EnderecoBom(th) /\ ~TemCep(th)
                          \/ CepBom(th) /\ ~TemEndereco(th)
            IN  /\ th.calc # "-" => aceita
                /\ ~aceita => Rejeitada(th)
                /\ SemChaves(th)

\* C10 (amended): POST /calcular runs a fee calculation exactly when the body
\* has a non-blank 'endereco', whatever else it has, or has no 'endereco' and an
\* 8-digit 'cep'; 'endereco' decides the calculator when both keys are present;
\* an empty body gets 400 DADOS_OBRIGATORIOS, a body with neither key 400
\* PARAMETRO_INVALIDO; a rejected request makes no network call.
C10_PortaDeEntrada ==
    \A t \in Threads :
        thr[t].rota = "calcular" =>
            LET th == thr[t]
                aceita == \/ EnderecoBom(th)
                          \/ CepBom(th) /\ ~TemEndereco(th)
            IN  /\ th.calc # "-" <=> aceita
                /\ aceita => th.calc = IF TemEndereco(th) THEN "endereco" ELSE "cep"
                /\ ~aceita => Rejeitada(th)
                /\ SemChaves(th)

\* A body with both keys, the 'cep' malformed, was served by its 'endereco'.
C10_Witness ==
    \E t \in Threads :
        /\ thr[t].rota = "calcular"
        /\ thr[t].corpo = ("endereco" :> Texto(<<"R","b">>)) @@ ("cep" :> Texto(<<"1","2","3">>))
        /\ thr[t].pc = "fim"
        /\ thr[t].calc = "endereco"
        /\ thr[t].resp.http = 200

\* ---------------------------------------------------------------- C11
Ordem(e) == IF e = "origem" THEN 1 ELSE IF e = "destino" THEN 2 ELSE 3

\* The stage of a thread moves forward only: none, depot, destination, route,
\* and back to none when the response is delivered.
Avanca(e, f) ==
    \/ f = e
    \/ f = "-"
    \/ e = "-" /\ f = "origem"
    \/ e = "origem" /\ f = "destino"
    \/ e = "destino" /\ f = "rota"

\* The stages whose resolve tested the cache.
Testadas(th) == th.quente \cup th.fria

EtapasEmOrdem(th) ==
    /\ \A i, j \in 1..Len(th.chamadas) :
           i < j => Ordem(th.chamadas[i].etapa) <= Ordem(th.chamadas[j].etapa)
    /\ Len(ChamadasDe(th, "rota")) <= 1
    /\ Len(SelectSeq(th.chamadas, LAMBDA c : c.svc = "viacep")) <= 2
    /\ th.etapa = "origem" =>
           /\ th.coord_origem = Nenhuma /\ th.coord_destino = Nenhuma
           /\ "destino" \notin Testadas(th)
           /\ ChamadasDe(th, "destino") = <<>>
    /\ th.etapa \in {"origem", "destino"} =>
           /\ th.pc # "osrm" => th.coord_destino = Nenhuma
           /\ th.resp_osrm.tipo = "-"
           /\ ChamadasDe(th, "rota") = <<>>
    /\ th.etapa = "destino" => th.coord_origem # Nenhuma /\ "origem" \in Testadas(th)
    /\ th.pc = "osrm" => th.coord_destino # Nenhuma /\ "destino" \in Testadas(th)
    /\ th.falha # "-" => th.etapa \in {"origem", "destino"} /\ th.pc = "fim"
    /\ th.resp.corpo.status = "sucesso" =>
           /\ th.etapa = "rota"
           /\ th.coord_origem # Nenhuma /\ th.coord_destino # Nenhuma
           /\ Testadas(th) = {"origem", "destino"}
           /\ Len(ChamadasDe(th, "rota")) = 1
           /\ th.resp_osrm.tipo # "-"

\* C11: in a fee calculation the depot is resolved first, then the destination,
\* then the routing service is queried, each once; a failed depot resolve is
\* followed by no destination lookup and no routing call, a failed destination
\* resolve by no routing call; a success result comes after all three stages.
C11_OrdemDasEtapas ==
    /\ [](\A t \in Threads : thr[t].calc # "-" => EtapasEmOrdem(thr[t]))
    /\ [][\A t \in Threads : Avanca(thr[t].etapa, thr'[t].etapa)]_vars

\* A request whose destination was not found: the depot was resolved over the
\* network, the destination's geocoder call failed, the router was not called.
C11_Witness ==
    \E t \in Threads :
        /\ thr[t].pc = "fim"
        /\ thr[t].calc = "endereco"
        /\ thr[t].falha = "Endereco nao encontrado"
        /\ thr[t].coord_origem # Nenhuma
        /\ ChamadasDe(thr[t], "origem") # <<>>
        /\ ChamadasDe(thr[t], "destino") # <<>>
        /\ ChamadasDe(thr[t], "rota") = <<>>

\* ---------------------------------------------------------------- C12
\* The two results of the fee specification with the distances they come from.
Calculados == { <<entrada.d1, saida.r1>>, <<entrada.d2, saida.r2>> }

\* C12 as stated: the reported ida_volta_km is twice the reported ida_km, and
\* the reported km_excedente is the reported ida_volta_km - 60 whenever the fee
\* is not zero.
C12_DobroDoReportado ==
    saida.calc # "-" =>
        \A c \in Calculados :
            /\ c[2].ida_volta_km = 2 * c[2].ida_km
            /\ c[2].valor_taxa # 0 => c[2].km_excedente = c[2].ida_volta_km - 6000

\* C12 (amended): the reported ida_volta_km is twice the unrounded one-way
\* distance rounded to 2 decimals, so it is within 0.01 km of twice the reported
\* ida_km; the reported km_excedente is the reported ida_volta_km - 60 whenever
\* the fee is not zero.
C12_IdaVoltaArredondada ==
    saida.calc # "-" =>
        \A c \in Calculados :
            LET d == c[1]
                r == c[2]
            IN  /\ 10000 * r.ida_volta_km - 5000 <= 2 * d
                /\ 2 * d <= 10000 * r.ida_volta_km + 5000
                /\ r.ida_volta_km - 2 * r.ida_km \in {-1, 0, 1}
                /\ r.valor_taxa # 0 => r.km_excedente = r.ida_volta_km - 6000

\* 30.0025 km one way: reported 30.00 one way and 60.01 round trip (the double
\* of the binary quotient lies above 60.005), excess 0.01.
C12_Witness ==
    /\ saida.calc = "cep"
    /\ entrada.d2 = 30002500
    /\ saida.r2.ida_km = 3000
    /\ saida.r2.ida_volta_km = 6001
    /\ saida.r2.km_excedente = 1
    /\ saida.r2.valor_taxa = 1

\* ---------------------------------------------------------------- C13
\* C13 as stated: a reported ida_km of at most 30.00 comes with a reported
\* km_excedente and valor_taxa of 0.
C13_LimiarNoReportado ==
    saida.calc # "-" =>
        \A c \in Calculados :
            c[2].ida_km <= 3000 => c[2].km_excedente = 0 /\ c[2].valor_taxa = 0

\* C13 (amended): the franchise is tested on the unrounded distance: a one-way
\* distance of at most 30 km, and every reported ida_km below 30.00, comes with
\* a reported km_excedente and valor_taxa of 0; a reported valor_taxa above 0
\* implies a distance above 30 km and a reported ida_km of at least 30.00.
C13_LimiarNaDistancia ==
    saida.calc # "-" =>
        \A c \in Calculados :
            LET d == c[1]
                r == c[2]
            IN  /\ d <= 30000000 => r.km_excedente = 0 /\ r.valor_taxa = 0
                /\ r.ida_km < 3000 => r.km_excedente = 0 /\ r.valor_taxa = 0
                /\ r.valor_taxa > 0 => d > 30000000 /\ r.ida_km >= 3000
                /\ r.km_excedente > 0 => d > 30000000 /\ r.ida_km >= 3000

\* 30.004 km one way: reported ida_km 30.00 with excess 0.01 and fee 0.01.
C13_Witness ==
    /\ saida.calc = "endereco"
    /\ entrada.d2 = 30004000
    /\ saida.r2.ida_km = 3000
    /\ saida.r2.km_excedente = 1
    /\ saida.r2.valor_taxa = 1

\* ---------------------------------------------------------------- C14
\* C14: in every interleaving, the value stored under a key does not change
\* while the key stays in the cache (until a clear-cache), so every resolve of
\* the key between two clears returns the value the first one returned, even
\* when two overlapping resolves of the key both miss the cache and receive
\* different answers from the upstream services.
C14_ValorEstavel ==
    [][\A k \in DOMAIN CACHE_COORDENADAS :
          k \in DOMAIN CACHE_COORDENADAS'
          => CACHE_COORDENADAS'[k] = CACHE_COORDENADAS[k]]_vars

\* ---------------------------------------------------------------- C15
\* A complete result of a resolution: a point of the geocoder or of the static
\* table, with the label of the query that found it.
Completa(c) ==
    /\ c # Nenhuma
    /\ c.endereco \in {"rua", "bairro", "cidade", "aproximado", "display_name"}
    /\ <<c.lat, c.lon>> \in PontosGeo \cup {coordenadas_cidades[p] : p \in DOMAIN coordenadas_cidades}

\* The step is thread t storing the result of its own successful resolve under
\* its own normalized key, and nothing else.
GuardouPropria(t) ==
    LET k == ChaveAtual(thr[t])
        r == thr'[t].resultado
    IN  /\ thr[t].pc \in {"nom1", "nom2", "nom"}
        /\ thr'[t].pc = "ret"
        /\ thr'[t].falha = "-"
        /\ Completa(r)
        /\ (r.endereco = "display_name") <=> ~PeloViaCEP(thr[t])
        /\ CACHE_COORDENADAS' =
              [j \in DOMAIN CACHE_COORDENADAS \cup {k} |->
                  IF j = k THEN r ELSE CACHE_COORDENADAS[j]]
        /\ thr'[t].guardadas = thr[t].guardadas \cup {k}

\* The step is thread t's clear-cache emptying the cache.
Esvaziou(t) ==
    /\ thr[t].pc = "limpar"
    /\ thr'[t].pc = "fim"
    /\ CACHE_COORDENADAS' = CacheVazio

\* C15: a resolve that fails leaves the cache exactly as it was; the cache is
\* modified only by a successful resolve, which adds the entry for its own
\* normalized key, or by clear-cache; GET / and GET /health never modify it; a
\* fee calculation that returns an error has added at most the depot's entry;
\* and every cache entry is the complete result of a successful resolution of
\* its key.
C15_MolduraDoCache ==
    /\ [](/\ \A k \in DOMAIN CACHE_COORDENADAS :
                Completa(CACHE_COORDENADAS[k]) /\ k \in resolvidas
          /\ \A t \in Threads :
                /\ (thr[t].pc = "fim" /\ thr[t].resp.corpo.status = "erro")
                   => thr[t].guardadas \subseteq {ChaveCep(CEP_ORIGEM)}
                /\ (thr[t].falha # "-" /\ thr[t].etapa = "origem")
                   => thr[t].guardadas = {}
                /\ thr[t].rota \in {"home", "health", "limpar_cache"}
                   => thr[t].guardadas = {})
    /\ [][/\ CACHE_COORDENADAS' # CACHE_COORDENADAS
             => \E t \in Threads : GuardouPropria(t) \/ Esvaziou(t)
          /\ \A t \in Threads :
                /\ (thr[t].falha = "-" /\ thr'[t].falha # "-")
                   => /\ CACHE_COORDENADAS' = CACHE_COORDENADAS
                      /\ thr'[t].guardadas = thr[t].guardadas
                /\ (thr'[t] # thr[t] /\ {thr[t].rota, thr'[t].rota} \cap {"home", "health"} # {})
                   => /\ CACHE_COORDENADAS' = CACHE_COORDENADAS
                      /\ thr'[t].guardadas = {}
                      /\ thr'[t].pc = "fim" => thr'[t].resp.http = 200]_vars

\* A calculation by address resolved the depot and failed to find the
\* destination: it returns an error, and the depot's entry, which it added, is
\* the only entry of the cache.
C15_Witness ==
    \E t \in Threads :
        /\ thr[t].pc = "fim"
        /\ thr[t].calc = "endereco"
        /\ thr[t].resp.corpo.status = "erro"
        /\ thr[t].falha = "Endereco nao encontrado"
        /\ thr[t].guardadas = {ChaveCep(CEP_ORIGEM)}
        /\ DOMAIN CACHE_COORDENADAS = {ChaveCep(CEP_ORIGEM)}
====
